---- MODULE Spec2Model ----
(***************************************************************************)
(* Model of the assistant bot's contact book (src/bot.py): the validated   *)
(* fields Phone and Birthday, Record, AddressBook with its upcoming        *)
(* birthday query, and the command handlers wrapped by input_error.        *)
(*                                                                         *)
(* Python strings are sequences of one-character strings, so that          *)
(* validation, parsing and formatting are computed rather than assumed.    *)
(* A raised exception is a value: every modelled function returns a record *)
(* with a field exc ("None" when the call returned normally).              *)
(***************************************************************************)
EXTENDS Integers, Sequences, FiniteSets, TLC

VARIABLES data, system_date, last

vars == <<data, system_date, last>>

(***************************************************************************)
(* Bounds of the model.                                                    *)
(***************************************************************************)
\* Most phones the records of the book hold together.
MaxPhones == 3

\* Number of consecutive years, starting with 2024, `today` ranges over.
NumYears == 2

(***************************************************************************)
(* Input pools.                                                            *)
(***************************************************************************)
Ann == <<"A", "n", "n">>
Bob == <<"B", "o", "b">>
Names == {Ann, Bob}

P1 == <<"1", "1", "1", "1", "1", "1", "1", "1", "1", "1">>
P2 == <<"2", "2", "2", "2", "2", "2", "2", "2", "2", "2">>
PShort == <<"1", "2", "3">>
PLong == <<"1", "1", "1", "1", "1", "1", "1", "1", "1", "1", "1">>
PAlpha == <<"1", "1", "1", "1", "1", "1", "1", "1", "1", "a">>

GoodPhones == {P1, P2}
BadPhones == {PShort, PLong, PAlpha}
PhonePool == GoodPhones \cup BadPhones
OldPhonePool == {P1, P2}
NewPhonePool == {P1, P2, PAlpha}

B_15_06_2024 == <<"1", "5", ".", "0", "6", ".", "2", "0", "2", "4">>
B_02_01_2000 == <<"0", "2", ".", "0", "1", ".", "2", "0", "0", "0">>
B_29_02_2000 == <<"2", "9", ".", "0", "2", ".", "2", "0", "0", "0">>
B_1_3_2001 == <<"1", ".", "3", ".", "2", "0", "0", "1">>
B_31_02_2020 == <<"3", "1", ".", "0", "2", ".", "2", "0", "2", "0">>
B_2020_01_01 == <<"2", "0", "2", "0", ".", "0", "1", ".", "0", "1">>
B_15_06_24 == <<"1", "5", ".", "0", "6", ".", "2", "4">>

GoodBirthdays == {B_15_06_2024, B_02_01_2000, B_29_02_2000, B_1_3_2001}
BadBirthdays == {B_31_02_2020, B_2020_01_01, B_15_06_24}
\* Birthday strings offered to add_birthday while the book is being edited.
EditBirthdayPool == {B_1_3_2001, B_31_02_2020, B_2020_01_01}

(***************************************************************************)
(* A local variable: Op applied to the value of v, v evaluated once.       *)
(***************************************************************************)
With(v, Op(_)) == CHOOSE r \in {Op(x) : x \in {v}} : TRUE

(***************************************************************************)
(* Strings.                                                                *)
(***************************************************************************)
DigitChars == {"0", "1", "2", "3", "4", "5", "6", "7", "8", "9"}

DigitValue(c) ==
    CASE c = "0" -> 0 [] c = "1" -> 1 [] c = "2" -> 2 [] c = "3" -> 3
      [] c = "4" -> 4 [] c = "5" -> 5 [] c = "6" -> 6 [] c = "7" -> 7
      [] c = "8" -> 8 [] c = "9" -> 9

DigitChar(n) ==
    CASE n = 0 -> "0" [] n = 1 -> "1" [] n = 2 -> "2" [] n = 3 -> "3"
      [] n = 4 -> "4" [] n = 5 -> "5" [] n = 6 -> "6" [] n = 7 -> "7"
      [] n = 8 -> "8" [] n = 9 -> "9"

\* str.isdigit(): every character is a digit and there is at least one.
isdigit(s) == Len(s) > 0 /\ \A i \in 1..Len(s) : s[i] \in DigitChars

\* int() of a string of digits.
RECURSIVE ToInt(_)
ToInt(s) ==
    IF Len(s) = 0 THEN 0
    ELSE 10 * ToInt(SubSeq(s, 1, Len(s) - 1)) + DigitValue(s[Len(s)])

\* The pieces of s between the separators sep.
RECURSIVE Split(_, _)
Split(s, sep) ==
    IF \A i \in 1..Len(s) : s[i] # sep THEN <<s>>
    ELSE LET i == CHOOSE k \in 1..Len(s) :
                      s[k] = sep /\ \A j \in 1..(k - 1) : s[j] # sep
         IN <<SubSeq(s, 1, i - 1)>> \o Split(SubSeq(s, i + 1, Len(s)), sep)

\* n written with at least `width` digits, padded with zeros.
RECURSIVE ZeroPad(_, _)
ZeroPad(n, width) ==
    IF n < 10 /\ width <= 1 THEN <<DigitChar(n)>>
    ELSE ZeroPad(n \div 10, width - 1) \o <<DigitChar(n % 10)>>

(***************************************************************************)
(* Calendar dates as datetime.date computes them.                          *)
(***************************************************************************)
IsLeap(y) == y % 4 = 0 /\ (y % 100 # 0 \/ y % 400 = 0)

DaysInMonth(y, m) ==
    IF m = 2 THEN (IF IsLeap(y) THEN 29 ELSE 28)
    ELSE IF m \in {4, 6, 9, 11} THEN 30 ELSE 31

DaysBeforeYear(y) ==
    LET y1 == y - 1
    IN y1 * 365 + (y1 \div 4) - (y1 \div 100) + (y1 \div 400)

RECURSIVE DaysBeforeMonth(_, _)
DaysBeforeMonth(y, m) ==
    IF m = 1 THEN 0 ELSE DaysBeforeMonth(y, m - 1) + DaysInMonth(y, m - 1)

MkDate(y, m, d) == [year |-> y, month |-> m, day |-> d]

\* date.toordinal()
ToOrdinal(dt) ==
    DaysBeforeYear(dt.year) + DaysBeforeMonth(dt.year, dt.month) + dt.day

\* date.fromordinal(n), for the years a congratulation date can fall in.
FromOrdinal(n) ==
    With(CHOOSE yy \in (n \div 366)..((n \div 365) + 1) :
             DaysBeforeYear(yy) < n /\ n <= DaysBeforeYear(yy + 1),
         LAMBDA y :
             With(CHOOSE mm \in 1..12 :
                      /\ DaysBeforeMonth(y, mm) < n - DaysBeforeYear(y)
                      /\ n - DaysBeforeYear(y)
                             <= DaysBeforeMonth(y, mm) + DaysInMonth(y, mm),
                  LAMBDA m :
                      MkDate(y, m, n - DaysBeforeYear(y) - DaysBeforeMonth(y, m))))

\* date.weekday(): Monday is 0, Sunday is 6.
weekday(dt) == (ToOrdinal(dt) + 6) % 7

\* date + timedelta(days=n)
AddDays(dt, n) == With(ToOrdinal(dt) + n, LAMBDA ordinal : FromOrdinal(ordinal))

\* date.replace(year=y): fails when the day does not exist in that year.
replace_year(dt, y) ==
    IF dt.day > DaysInMonth(y, dt.month)
    THEN [exc |-> "ValueError", val |-> dt]
    ELSE [exc |-> "None", val |-> MkDate(y, dt.month, dt.day)]

\* datetime.strptime(value, "%d.%m.%Y").date(): a day of one or two digits
\* (1..31, "0" alone or "00" refused), a month likewise (1..12), a year of
\* exactly four digits, no other text; then the date must exist.
strptime_parts(parts) ==
    LET bad == [exc |-> "ValueError", val |-> MkDate(1, 1, 1)]
    IN IF Len(parts) # 3 THEN bad
       ELSE LET ds == parts[1]
                ms == parts[2]
                ys == parts[3]
            IN IF ~(isdigit(ds) /\ Len(ds) \in {1, 2} /\ ToInt(ds) \in 1..31)
                  THEN bad
               ELSE IF ~(isdigit(ms) /\ Len(ms) \in {1, 2} /\ ToInt(ms) \in 1..12)
                  THEN bad
               ELSE IF ~(isdigit(ys) /\ Len(ys) = 4) THEN bad
               ELSE IF ToInt(ys) < 1 THEN bad
               ELSE IF ToInt(ds) > DaysInMonth(ToInt(ys), ToInt(ms)) THEN bad
               ELSE [exc |-> "None",
                     val |-> MkDate(ToInt(ys), ToInt(ms), ToInt(ds))]

strptime(value) == With(Split(value, "."), LAMBDA parts : strptime_parts(parts))

\* date.strftime("%d.%m.%Y")
strftime(dt) ==
    ZeroPad(dt.day, 2) \o <<".">> \o ZeroPad(dt.month, 2) \o <<".">>
        \o ZeroPad(dt.year, 1)

(***************************************************************************)
(* Field classes.                                                          *)
(***************************************************************************)
\* Phone.validate
Phone_validate(value) == isdigit(value) /\ Len(value) = 10

\* Phone.__init__
Phone(value) ==
    IF ~Phone_validate(value)
    THEN [exc |-> "ValueError", msg |-> "Phone number must contain exactly 10 digits",
          val |-> value]
    ELSE [exc |-> "None", msg |-> "", val |-> value]

\* Birthday.__init__
Birthday(value) ==
    IF strptime(value).exc = "ValueError"
    THEN [exc |-> "ValueError", msg |-> "Invalid date format. Use DD.MM.YYYY",
          val |-> value]
    ELSE [exc |-> "None", msg |-> "", val |-> value]

(***************************************************************************)
(* Record.  birthday is None (set = FALSE) or a Birthday value.            *)
(***************************************************************************)
NoBirthday == [set |-> FALSE, value |-> <<>>]
SomeBirthday(v) == [set |-> TRUE, value |-> v]

\* Record.__init__
Record(name) == [name |-> name, phones |-> <<>>, birthday |-> NoBirthday]

RemoveAt(seq, i) == SubSeq(seq, 1, i - 1) \o SubSeq(seq, i + 1, Len(seq))

\* find_phone returning the last match instead of the first.
find_phone_Last(record, phone) ==
    IF \E i \in 1..Len(record.phones) : record.phones[i] = phone
    THEN CHOOSE i \in 1..Len(record.phones) :
             /\ record.phones[i] = phone
             /\ \A j \in (i + 1)..Len(record.phones) : record.phones[j] # phone
    ELSE 0

\* Record.find_phone: the position of the Phone object returned, 0 for None.
find_phone(record, phone) ==
    IF \E i \in 1..Len(record.phones) : record.phones[i] = phone
    THEN CHOOSE i \in 1..Len(record.phones) :
             /\ record.phones[i] = phone
             /\ \A j \in 1..(i - 1) : record.phones[j] # phone
    ELSE 0

\* add_phone appending the raw value without constructing a Phone.
Record_add_phone_Unchecked(record, phone) ==
    [exc |-> "None", msg |-> "", rec |-> [record EXCEPT !.phones = Append(@, phone)]]

\* Record.add_phone
Record_add_phone(record, phone) ==
    LET p == Phone(phone)
    IN IF p.exc # "None" THEN [exc |-> p.exc, msg |-> p.msg, rec |-> record]
       ELSE [exc |-> "None", msg |-> "",
             rec |-> [record EXCEPT !.phones = Append(@, p.val)]]

\* Record.remove_phone
Record_remove_phone(record, phone) ==
    LET phone_obj == find_phone(record, phone)
    IN IF phone_obj # 0
       THEN [exc |-> "None", msg |-> "",
             rec |-> [record EXCEPT !.phones = RemoveAt(@, phone_obj)]]
       ELSE [exc |-> "ValueError", msg |-> "Phone not found", rec |-> record]

\* edit_phone removing the old phone before it validates the new one.
Record_edit_phone_RemoveFirst(record, old_phone, new_phone) ==
    LET phone_obj == find_phone(record, old_phone)
    IN IF phone_obj = 0
       THEN [exc |-> "ValueError", msg |-> "Phone not found", rec |-> record]
       ELSE LET removed == [record EXCEPT !.phones = RemoveAt(@, phone_obj)]
                p == Phone(new_phone)
            IN IF p.exc # "None"
               THEN [exc |-> p.exc,
                     msg |-> "New phone number must contain exactly 10 digits",
                     rec |-> removed]
               ELSE [exc |-> "None", msg |-> "",
                     rec |-> [removed EXCEPT !.phones = Append(@, p.val)]]

\* edit_phone replacing the old phone where it stands.
Record_edit_phone_InPlace(record, old_phone, new_phone) ==
    LET phone_obj == find_phone(record, old_phone)
    IN IF phone_obj = 0
       THEN [exc |-> "ValueError", msg |-> "Phone not found", rec |-> record]
       ELSE IF ~Phone_validate(new_phone)
       THEN [exc |-> "ValueError",
             msg |-> "New phone number must contain exactly 10 digits",
             rec |-> record]
       ELSE [exc |-> "None", msg |-> "",
             rec |-> [record EXCEPT !.phones[phone_obj] = new_phone]]

\* Record.edit_phone
Record_edit_phone(record, old_phone, new_phone) ==
    LET phone_obj == find_phone(record, old_phone)
    IN IF phone_obj = 0
       THEN [exc |-> "ValueError", msg |-> "Phone not found", rec |-> record]
       ELSE IF ~Phone_validate(new_phone)
       THEN [exc |-> "ValueError",
             msg |-> "New phone number must contain exactly 10 digits",
             rec |-> record]
       ELSE LET removed == [record EXCEPT !.phones = RemoveAt(@, phone_obj)]
                p == Phone(new_phone)
            IN IF p.exc # "None"
               THEN [exc |-> p.exc, msg |-> p.msg, rec |-> removed]
               ELSE [exc |-> "None", msg |-> "",
                     rec |-> [removed EXCEPT !.phones = Append(@, p.val)]]

\* Record.add_birthday
Record_add_birthday(record, birthday) ==
    LET b == Birthday(birthday)
    IN IF b.exc # "None" THEN [exc |-> b.exc, msg |-> b.msg, rec |-> record]
       ELSE [exc |-> "None", msg |-> "",
             rec |-> [record EXCEPT !.birthday = SomeBirthday(b.val)]]

(***************************************************************************)
(* AddressBook.  The dict is the sequence of its items in insertion order. *)
(***************************************************************************)
Keys(book) == {book[i].key : i \in 1..Len(book)}

\* Position of key `name` in the dict, 0 when it is not a key.
KeyIndex(book, name) ==
    IF name \in Keys(book)
    THEN CHOOSE i \in 1..Len(book) : book[i].key = name
    ELSE 0

\* self.data[key] = record
SetItem(book, key, record) ==
    IF KeyIndex(book, key) # 0
    THEN [book EXCEPT ![KeyIndex(book, key)].record = record]
    ELSE Append(book, [key |-> key, record |-> record])

\* add_record keying the record by its first phone when it has one.
add_record_KeyByPhone(book, record) ==
    SetItem(book,
            IF Len(record.phones) > 0 THEN record.phones[1] ELSE record.name,
            record)

\* AddressBook.add_record
add_record(book, record) == SetItem(book, record.name, record)

\* AddressBook.find: the position of the record returned, 0 for None.
find(book, name) == KeyIndex(book, name)

\* delete removing the oldest entry instead of the named one.
delete_First(book, name) ==
    IF name \in Keys(book)
    THEN [exc |-> "None", msg |-> "", book |-> Tail(book)]
    ELSE [exc |-> "KeyError", msg |-> "Contact not found", book |-> book]

\* AddressBook.delete
delete(book, name) ==
    IF name \in Keys(book)
    THEN [exc |-> "None", msg |-> "", book |-> RemoveAt(book, KeyIndex(book, name))]
    ELSE [exc |-> "KeyError", msg |-> "Contact not found", book |-> book]

\* A method call on the record object found at position i: the record is
\* mutated in place, so the book sees the change.
Mutate(book, i, res) ==
    [exc |-> res.exc, msg |-> res.msg, book |-> [book EXCEPT ![i].record = res.rec]]

(***************************************************************************)
(* AddressBook.get_upcoming_birthdays                                      *)
(***************************************************************************)
\* The weekend shift moving a Saturday by one day only.
congratulation_date_SaturdayPlusOne(birthday_this_year) ==
    IF weekday(birthday_this_year) = 5 THEN AddDays(birthday_this_year, 1)
    ELSE IF weekday(birthday_this_year) = 6 THEN AddDays(birthday_this_year, 1)
    ELSE birthday_this_year

\* The weekend shift of a birthday falling on birthday_this_year.
congratulation_date(birthday_this_year) ==
    IF weekday(birthday_this_year) = 5 THEN AddDays(birthday_this_year, 2)
    ELSE IF weekday(birthday_this_year) = 6 THEN AddDays(birthday_this_year, 1)
    ELSE birthday_this_year

\* The loop body once both candidate dates are known: this_year and
\* next_year are the outcomes of birthday_date.replace for today's year and
\* the year after.
entry_for(name, this_year, next_year, today) ==
    IF this_year.exc # "None" THEN [exc |-> this_year.exc, add |-> <<>>]
    ELSE IF ToOrdinal(this_year.val) < ToOrdinal(today) /\ next_year.exc # "None"
    THEN [exc |-> next_year.exc, add |-> <<>>]
    ELSE With(IF ToOrdinal(this_year.val) < ToOrdinal(today)
              THEN next_year.val ELSE this_year.val,
              LAMBDA birthday_this_year :
                  LET days_until_birthday ==
                          ToOrdinal(birthday_this_year) - ToOrdinal(today)
                  IN IF 0 <= days_until_birthday /\ days_until_birthday <= 7
                     THEN [exc |-> "None",
                           add |-> <<[name |-> name,
                                      birthday |-> With(
                                          congratulation_date(birthday_this_year),
                                          LAMBDA date : strftime(date))]>>]
                     ELSE [exc |-> "None", add |-> <<>>])

\* The body of the loop for one record: the exception it raises if any, and
\* the entries it appends to `upcoming`.
birthday_entry(record, today) ==
    IF ~record.birthday.set THEN [exc |-> "None", add |-> <<>>]
    ELSE With(strptime(record.birthday.value),
              LAMBDA parsed :
                  IF parsed.exc # "None" THEN [exc |-> parsed.exc, add |-> <<>>]
                  ELSE With(<<replace_year(parsed.val, today.year),
                              replace_year(parsed.val, today.year + 1)>>,
                            LAMBDA years :
                                entry_for(record.name, years[1], years[2], today)))

\* The loop over self.data.values() from position i on.
RECURSIVE upcoming_from(_, _, _, _)
upcoming_from(book, i, today, upcoming) ==
    IF i > Len(book) THEN [exc |-> "None", upcoming |-> upcoming]
    ELSE With(birthday_entry(book[i].record, today),
              LAMBDA e :
                  IF e.exc # "None" THEN [exc |-> e.exc, upcoming |-> <<>>]
                  ELSE upcoming_from(book, i + 1, today, upcoming \o e.add))

get_upcoming_birthdays(book, today) == upcoming_from(book, 1, today, <<>>)

(***************************************************************************)
(* Command handlers.  A handler returns the book as it leaves it, the      *)
(* exception it raised (exc) and, when it returned, its message (ret).     *)
(***************************************************************************)
Raise(book, exc, msg) == [book |-> book, exc |-> exc, msg |-> msg, ret |-> ""]
Return(book, ret) == [book |-> book, exc |-> "None", msg |-> "", ret |-> ret]

\* add_contact
add_contact(args, book) ==
    IF Len(args) < 2 THEN Raise(book, "ValueError", "not enough values to unpack")
    ELSE
    LET name == args[1]
        phone == args[2]
        found == find(book, name)
        book1 == IF found = 0 THEN add_record(book, Record(name)) ELSE book
        message == IF found = 0 THEN "Contact added." ELSE "Contact updated."
        i == find(book1, name)
    IN IF Len(phone) > 0
       THEN LET r == Mutate(book1, i, Record_add_phone(book1[i].record, phone))
            IN IF r.exc # "None" THEN Raise(r.book, r.exc, r.msg)
               ELSE Return(r.book, message)
       ELSE Return(book1, message)

\* change_contact
change_contact(args, book) ==
    IF Len(args) # 3 THEN Raise(book, "ValueError", "wrong number of values to unpack")
    ELSE
    LET name == args[1]
        i == find(book, name)
    IN IF i = 0 THEN Raise(book, "AttributeError", "NoneType has no attribute")
       ELSE LET r == Mutate(book, i,
                            Record_edit_phone(book[i].record, args[2], args[3]))
            IN IF r.exc # "None" THEN Raise(r.book, r.exc, r.msg)
               ELSE Return(r.book, "Phone updated.")

\* delete_contact
delete_contact(args, book) ==
    IF Len(args) < 1 THEN Raise(book, "ValueError", "not enough values to unpack")
    ELSE LET r == delete(book, args[1])
         IN IF r.exc # "None" THEN Raise(r.book, r.exc, r.msg)
            ELSE Return(r.book, "Contact deleted.")

\* remove_phone (the command handler)
remove_phone(args, book) ==
    IF Len(args) # 2 THEN Raise(book, "ValueError", "wrong number of values to unpack")
    ELSE
    LET name == args[1]
        i == find(book, name)
    IN IF i = 0 THEN Raise(book, "AttributeError", "NoneType has no attribute")
       ELSE LET r == Mutate(book, i, Record_remove_phone(book[i].record, args[2]))
            IN IF r.exc # "None" THEN Raise(r.book, r.exc, r.msg)
               ELSE Return(r.book, "Phone removed.")

\* add_birthday (the command handler)
add_birthday(args, book) ==
    IF Len(args) # 2 THEN Raise(book, "ValueError", "wrong number of values to unpack")
    ELSE
    LET name == args[1]
        i == find(book, name)
    IN IF i = 0 THEN Raise(book, "AttributeError", "NoneType has no attribute")
       ELSE LET r == Mutate(book, i, Record_add_birthday(book[i].record, args[2]))
            IN IF r.exc # "None" THEN Raise(r.book, r.exc, r.msg)
               ELSE Return(r.book, "Birthday added.")

\* input_error: what the wrapped handler returns to the command loop.
input_error(res) ==
    IF res.exc = "None" THEN res.ret
    ELSE IF res.exc = "ValueError" THEN "Error: ValueError"
    ELSE IF res.exc = "IndexError" THEN "Not enough arguments. Please try again."
    ELSE IF res.exc = "KeyError" THEN "Error: KeyError"
    ELSE IF res.exc = "AttributeError" THEN "This contact does not exist."
    ELSE "Unexpected error"

(***************************************************************************)
(* State: data is the book's dict, last is the outcome of the last call.   *)
(***************************************************************************)
Outcome(op, args, exc, msg, ret, upcoming) ==
    [op |-> op, args |-> args, exc |-> exc, msg |-> msg, ret |-> ret,
     upcoming |-> upcoming]

NoCall == Outcome("", <<>>, "None", "", "", <<>>)

\* The book starts empty (load_data without a saved file); the calendar
\* date plays no part in the editing operations.
Init ==
    /\ data = <<>>
    /\ system_date = MkDate(2024, 6, 10)
    /\ last = NoCall

\* ---- the core operations, called on the book and on its records ----
\* The records handed to add_record: fresh, or with one phone already added.
NewRecords ==
    {Record(n) : n \in Names} \cup {Record_add_phone(Record(Ann), P2).rec}

RECURSIVE TotalPhones(_)
TotalPhones(book) ==
    IF Len(book) = 0 THEN 0
    ELSE Len(book[1].record.phones) + TotalPhones(Tail(book))

AddRecord(record) ==
    /\ TotalPhones(add_record(data, record)) <= MaxPhones
    /\ data' = add_record(data, record)
    /\ UNCHANGED system_date
    /\ last' = Outcome("add_record", <<record.name>>, "None", "", "", <<>>)

Delete(name) ==
    LET r == delete(data, name)
    IN /\ data' = r.book
       /\ UNCHANGED system_date
       /\ last' = Outcome("delete", <<name>>, r.exc, r.msg, "", <<>>)

AddPhone(name, phone) ==
    /\ find(data, name) # 0
    /\ TotalPhones(data) < MaxPhones
    /\ LET i == find(data, name)
           r == Mutate(data, i, Record_add_phone(data[i].record, phone))
       IN /\ data' = r.book
          /\ UNCHANGED system_date
          /\ last' = Outcome("add_phone", <<name, phone>>, r.exc, r.msg, "",
                             <<>>)

RemovePhone(name, phone) ==
    /\ find(data, name) # 0
    /\ LET i == find(data, name)
           r == Mutate(data, i, Record_remove_phone(data[i].record, phone))
       IN /\ data' = r.book
          /\ UNCHANGED system_date
          /\ last' = Outcome("remove_phone", <<name, phone>>, r.exc, r.msg, "",
                             <<>>)

EditPhone(name, old_phone, new_phone) ==
    /\ find(data, name) # 0
    /\ LET i == find(data, name)
           r == Mutate(data, i,
                       Record_edit_phone(data[i].record, old_phone, new_phone))
       IN /\ data' = r.book
          /\ UNCHANGED system_date
          /\ last' = Outcome("edit_phone", <<name, old_phone, new_phone>>,
                             r.exc, r.msg, "", <<>>)

AddBirthday(name, birthday) ==
    /\ find(data, name) # 0
    /\ LET i == find(data, name)
           r == Mutate(data, i, Record_add_birthday(data[i].record, birthday))
       IN /\ data' = r.book
          /\ UNCHANGED system_date
          /\ last' = Outcome("add_birthday", <<name, birthday>>, r.exc, r.msg, "",
                             <<>>)

\* ---- the commands of the main loop ----
Command(op, args, res) ==
    /\ data' = res.book
    /\ UNCHANGED system_date
    /\ last' = Outcome(op, args, res.exc, res.msg, input_error(res), <<>>)

\* Room for the phone the command may add.
HasRoom(args) == TotalPhones(data) < MaxPhones

CmdAdd(args) == HasRoom(args) /\ Command("add", args, add_contact(args, data))

CmdChange(args) == Command("change", args, change_contact(args, data))

CmdDelete(args) == Command("delete_cmd", args, delete_contact(args, data))

CmdRemove(args) == Command("remove", args, remove_phone(args, data))

CmdAddBirthday(args) == Command("add-birthday", args, add_birthday(args, data))

\* Argument lists typed at the prompt (parse_input yields non-empty words).
ShortArgs == {<<>>} \cup {<<n>> : n \in Names}
AddArgs == ShortArgs \cup {<<n, p>> : n \in Names, p \in {P1, PShort}}
ChangeArgs == {<<Ann, P1>>} \cup {<<n, P1, p>> : n \in Names, p \in {P2, PAlpha}}
DeleteArgs == {<<>>} \cup {<<n>> : n \in Names}
RemoveArgs == {<<Ann>>} \cup {<<n, P1>> : n \in Names}
AddBirthdayArgs == {<<Ann>>} \cup {<<n, b>> : n \in Names, b \in {B_1_3_2001, B_15_06_24}}

Next ==
    \/ \E record \in NewRecords : AddRecord(record)
    \/ \E name \in Names : Delete(name)
    \/ \E name \in Names, phone \in PhonePool : AddPhone(name, phone)
    \/ \E name \in Names, phone \in OldPhonePool : RemovePhone(name, phone)
    \/ \E name \in Names, old_phone \in OldPhonePool, new_phone \in NewPhonePool :
           EditPhone(name, old_phone, new_phone)
    \/ \E name \in Names, birthday \in EditBirthdayPool :
           AddBirthday(name, birthday)
    \/ \E args \in AddArgs : CmdAdd(args)
    \/ \E args \in ChangeArgs : CmdChange(args)
    \/ \E args \in DeleteArgs : CmdDelete(args)
    \/ \E args \in RemoveArgs : CmdRemove(args)
    \/ \E args \in AddBirthdayArgs : CmdAddBirthday(args)

Spec == Init /\ [][Next]_vars

(***************************************************************************)
(* The upcoming birthday query, over books whose birthdays were set by     *)
(* add_birthday and for every `today` of the years covered.                *)
(***************************************************************************)
Years == 2024..(2023 + NumYears)

\* Every day of the years covered.
Todays ==
    UNION {{MkDate(y, mm, d) : d \in 1..DaysInMonth(y, mm)} :
               <<y, mm>> \in Years \X (1..12)}

BirthdayValues == {NoBirthday} \cup {SomeBirthday(b) : b \in GoodBirthdays}

BirthdayRecords ==
    {[Record(n) EXCEPT !.birthday = b] : n \in Names, b \in BirthdayValues}

Item(record) == [key |-> record.name, record |-> record]

BirthdayBooks ==
    {<<>>} \cup {<<Item(r)>> : r \in BirthdayRecords}
        \cup {<<Item(r1), Item(r2)>> :
                  <<r1, r2>> \in {p \in BirthdayRecords \X BirthdayRecords :
                                      p[1].name # p[2].name}}

\* system_date is what datetime.today().date() returns while the query runs.
InitBirthdays ==
    /\ data \in BirthdayBooks
    /\ system_date \in Todays
    /\ last = NoCall

GetUpcomingBirthdays ==
    /\ UNCHANGED <<data, system_date>>
    /\ last' = With(get_upcoming_birthdays(data, system_date),
                    LAMBDA r : Outcome("get_upcoming_birthdays", <<>>, r.exc, "", "",
                                       r.upcoming))

\* birthdays (the command handler): the view shows the list unless the
\* query raised.
birthdays(book, date) ==
    With(get_upcoming_birthdays(book, date),
         LAMBDA r : [book |-> book, exc |-> r.exc, msg |-> "", ret |-> "",
                     upcoming |-> r.upcoming])

CmdBirthdays ==
    /\ UNCHANGED <<data, system_date>>
    /\ last' = With(birthdays(data, system_date),
                    LAMBDA res : Outcome("birthdays", <<>>, res.exc, res.msg,
                                         input_error(res), res.upcoming))

NextBirthdays ==
    \/ GetUpcomingBirthdays
    \/ CmdBirthdays

SpecBirthdays == InitBirthdays /\ [][NextBirthdays]_vars

(***************************************************************************)
(* Vocabulary of the properties, stated without the operators above.       *)
(***************************************************************************)
BookNames(book) == {book[i].key : i \in 1..Len(book)}

RecordOf(book, name) == book[CHOOSE i \in 1..Len(book) : book[i].key = name].record

Stored(book, name, raw) ==
    /\ name \in BookNames(book)
    /\ \E i \in 1..Len(RecordOf(book, name).phones) :
           RecordOf(book, name).phones[i] = raw

\* seq without the first element equal to x.
RECURSIVE WithoutFirst(_, _)
WithoutFirst(seq, x) ==
    IF Len(seq) = 0 THEN <<>>
    ELSE IF Head(seq) = x THEN Tail(seq)
    ELSE <<Head(seq)>> \o WithoutFirst(Tail(seq), x)

TenDigits(s) ==
    /\ Len(s) = 10
    /\ \A i \in 1..Len(s) : s[i] \in {"0", "1", "2", "3", "4", "5", "6", "7", "8", "9"}

Failed(call) == call.exc # "None"
NotFoundError(call) == call.exc = "ValueError" /\ call.msg = "Phone not found"
ValidationError(call) ==
    call.exc = "ValueError" /\ call.msg = "New phone number must contain exactly 10 digits"

\* C1: a core operation that fails (add_phone with an invalid number,
\* remove_phone with an absent number, edit_phone with an absent old number or
\* an invalid new one, add_birthday with an invalid date, delete of an absent
\* name) fails with an error and leaves names, phone sequences and birthdays
\* exactly as they were.
C1_FailedOperationKeepsState ==
    [][(\/ last'.op = "add_phone" /\ last'.args[2] \notin GoodPhones
        \/ last'.op = "remove_phone" /\ ~Stored(data, last'.args[1], last'.args[2])
        \/ last'.op = "edit_phone"
             /\ (\/ ~Stored(data, last'.args[1], last'.args[2])
                 \/ last'.args[3] \notin GoodPhones)
        \/ last'.op = "add_birthday" /\ last'.args[2] \notin GoodBirthdays
        \/ last'.op = "delete" /\ last'.args[1] \notin BookNames(data))
       => (Failed(last') /\ data' = data)]_vars

\* An edit_phone refused for its new number although the old one is stored.
C1_Witness ==
    /\ last.op = "edit_phone"
    /\ Failed(last)
    /\ last.args[3] \notin GoodPhones
    /\ Stored(data, last.args[1], last.args[2])

\* C2: every key of the address book equals the name of the record it maps
\* to, whatever operations and commands have run.
C2_KeyIsRecordName ==
    \A i \in 1..Len(data) : data[i].key = data[i].record.name

\* Two contacts, the last one touched by the add command.
C2_Witness ==
    /\ Len(data) = 2
    /\ last.op = "add"
    /\ last.ret = "Contact updated."

\* C6: edit_phone(old, new) fails with the not-found error when old is not
\* stored (also when new is invalid), else with the validation error when new
\* is invalid, else leaves the phones with the first old removed and new
\* appended at the end.
C6_EditPhone ==
    [][last'.op = "edit_phone" =>
          LET name == last'.args[1]
              old == last'.args[2]
              new == last'.args[3]
          IN IF ~Stored(data, name, old) THEN NotFoundError(last')
             ELSE IF new \notin GoodPhones THEN ValidationError(last')
             ELSE /\ ~Failed(last')
                  /\ RecordOf(data', name).phones
                         = WithoutFirst(RecordOf(data, name).phones, old) \o <<new>>
                  /\ Len(RecordOf(data', name).phones)
                         = Len(RecordOf(data, name).phones)]_vars

\* An edit that moved the new number behind a phone that was stored after
\* the old one.
C6_Witness ==
    /\ last.op = "edit_phone"
    /\ ~Failed(last)
    /\ last.args[2] # last.args[3]
    /\ Len(RecordOf(data, last.args[1]).phones) >= 2
    /\ RecordOf(data, last.args[1]).phones[1] # last.args[3]

\* C7: delete(name) of an absent name fails with the not-found error and
\* leaves the book unchanged; of a present name, removes that key and leaves
\* every other key with the same record.
C7_Delete ==
    [][(last'.op \in {"delete", "delete_cmd"} /\ Len(last'.args) >= 1) =>
          LET name == last'.args[1]
          IN IF name \notin BookNames(data)
             THEN last'.exc = "KeyError" /\ data' = data
             ELSE /\ ~Failed(last')
                  /\ BookNames(data') = BookNames(data) \ {name}
                  /\ \A k \in BookNames(data') :
                         RecordOf(data', k) = RecordOf(data, k)]_vars

\* A delete that left the other contact, with a phone, in the book.
C7_Witness ==
    /\ last.op \in {"delete", "delete_cmd"}
    /\ ~Failed(last)
    /\ Len(last.args) >= 1
    /\ Len(data) = 1
    /\ Len(data[1].record.phones) >= 1

\* C8: the command `add NAME PHONE` with an invalid PHONE leaves the address
\* book unchanged.
C8_AddInvalidPhoneKeepsBook ==
    [][(last'.op = "add" /\ Len(last'.args) >= 2 /\ last'.args[2] \notin GoodPhones)
       => data' = data]_vars

\* C9: remove_phone(raw) removes exactly the first phone equal to raw and
\* keeps all others, later duplicates included, in order; it fails with the
\* not-found error when no phone equals raw.
C9_RemovePhone ==
    [][last'.op = "remove_phone" =>
          LET name == last'.args[1]
              raw == last'.args[2]
          IN IF Stored(data, name, raw)
             THEN /\ ~Failed(last')
                  /\ RecordOf(data', name).phones
                         = WithoutFirst(RecordOf(data, name).phones, raw)
             ELSE NotFoundError(last')]_vars

\* A removal that left a later duplicate of the removed number behind
\* another phone.
C9_Witness ==
    /\ last.op = "remove_phone"
    /\ ~Failed(last)
    /\ Len(RecordOf(data, last.args[1]).phones) = 2
    /\ RecordOf(data, last.args[1]).phones[1] # last.args[2]
    /\ RecordOf(data, last.args[1]).phones[2] = last.args[2]

\* C10: every stored phone is a string of exactly 10 digits and every stored
\* birthday is unset or a string the DD.MM.YYYY validation accepts.
C10_StoredValuesAreValid ==
    \A i \in 1..Len(data) :
        /\ \A j \in 1..Len(data[i].record.phones) :
               TenDigits(data[i].record.phones[j])
        /\ \/ ~data[i].record.birthday.set
           \/ data[i].record.birthday.value \in GoodBirthdays

\* A record with phones and a birthday, right after an invalid phone was
\* refused.
C10_Witness ==
    /\ last.op = "add_phone"
    /\ Failed(last)
    /\ \E i \in 1..Len(data) :
           /\ Len(data[i].record.phones) >= 2
           /\ data[i].record.birthday.set

(***************************************************************************)
(* The calendar as the properties of the birthday query read it: month and *)
(* day of each birthday string, day-by-day succession, Sakamoto's weekday. *)
(***************************************************************************)
MonthDay(b) ==
    CASE b = B_15_06_2024 -> <<6, 15>>
      [] b = B_02_01_2000 -> <<1, 2>>
      [] b = B_29_02_2000 -> <<2, 29>>
      [] b = B_1_3_2001 -> <<3, 1>>

LeapYears == {2020, 2024, 2028}

MonthLength(y, m) ==
    <<31, IF y \in LeapYears THEN 29 ELSE 28, 31, 30, 31, 30, 31, 31, 30, 31, 30, 31>>[m]

NextDay(dt) ==
    IF dt.day < MonthLength(dt.year, dt.month)
    THEN [dt EXCEPT !.day = @ + 1]
    ELSE IF dt.month < 12 THEN MkDate(dt.year, dt.month + 1, 1)
    ELSE MkDate(dt.year + 1, 1, 1)

\* dt and the n days after it.
RECURSIVE DaysFrom(_, _)
DaysFrom(dt, n) == IF n = 0 THEN {dt} ELSE {dt} \cup DaysFrom(NextDay(dt), n - 1)

\* 0 is Sunday, 6 is Saturday.
DayOfWeek(dt) ==
    LET y == IF dt.month < 3 THEN dt.year - 1 ELSE dt.year
        t == <<0, 3, 2, 5, 0, 3, 5, 1, 4, 6, 2, 4>>
    IN (y + (y \div 4) - (y \div 100) + (y \div 400) + t[dt.month] + dt.day) % 7

\* The year of the next occurrence of month/day md on or after date.
TargetYear(md, date) ==
    IF md[1] < date.month \/ (md[1] = date.month /\ md[2] < date.day)
    THEN date.year + 1
    ELSE date.year

ExistsInTargetYear(md, date) == md[2] <= MonthLength(TargetYear(md, date), md[1])

NextOccurrence(md, date) == MkDate(TargetYear(md, date), md[1], md[2])

TwoDigits(n) == <<DigitChar(n \div 10), DigitChar(n % 10)>>

DDMMYYYY(dt) ==
    TwoDigits(dt.day) \o <<".">> \o TwoDigits(dt.month) \o <<".">>
        \o TwoDigits(dt.year \div 100) \o TwoDigits(dt.year % 100)

Occurrences(upcoming, name) ==
    Cardinality({j \in 1..Len(upcoming) : upcoming[j].name = name})

Queried == last.op \in {"get_upcoming_birthdays", "birthdays"}

\* C3: a record whose birthday month/day exists in the target year is in the
\* result of get_upcoming_birthdays exactly once when it has a birthday whose
\* next occurrence on or after today is 0 to 7 days away, and not at all
\* otherwise.
C3_UpcomingIffWithinWeek ==
    last.op = "get_upcoming_birthdays" =>
        \A i \in 1..Len(data) :
            LET record == data[i].record
            IN IF ~record.birthday.set
               THEN Occurrences(last.upcoming, record.name) = 0
               ELSE LET md == MonthDay(record.birthday.value)
                    IN ExistsInTargetYear(md, system_date) =>
                           Occurrences(last.upcoming, record.name)
                               = IF NextOccurrence(md, system_date)
                                        \in DaysFrom(system_date, 7)
                                 THEN 1 ELSE 0

\* C3 restricted to the queries that return: every record is covered then.
C3_WhenQueryReturns ==
    (last.op = "get_upcoming_birthdays" /\ ~Failed(last)) =>
        \A i \in 1..Len(data) :
            LET record == data[i].record
            IN IF ~record.birthday.set
               THEN Occurrences(last.upcoming, record.name) = 0
               ELSE LET md == MonthDay(record.birthday.value)
                    IN /\ ExistsInTargetYear(md, system_date)
                       /\ Occurrences(last.upcoming, record.name)
                              = IF NextOccurrence(md, system_date)
                                       \in DaysFrom(system_date, 7)
                                THEN 1 ELSE 0

\* C4: every returned congratulation date is the candidate birthday plus 2
\* days when that is a Saturday, plus 1 day when it is a Sunday, and the
\* candidate itself otherwise: never a Saturday or Sunday, and a Monday
\* whenever it was shifted.
C4_WeekendShift ==
    Queried =>
        \A j \in 1..Len(last.upcoming) :
            LET entry == last.upcoming[j]
                candidate ==
                    NextOccurrence(MonthDay(RecordOf(data, entry.name).birthday.value),
                                   system_date)
                expected ==
                    IF DayOfWeek(candidate) = 6 THEN NextDay(NextDay(candidate))
                    ELSE IF DayOfWeek(candidate) = 0 THEN NextDay(candidate)
                    ELSE candidate
            IN /\ entry.birthday = DDMMYYYY(expected)
               /\ DayOfWeek(expected) \notin {0, 6}
               /\ expected # candidate => DayOfWeek(expected) = 1

B_17_06_2024 == <<"1", "7", ".", "0", "6", ".", "2", "0", "2", "4">>

\* The birthday 15.06.2024, a Saturday, asked for on 10.06.2024, is
\* congratulated on Monday 17.06.2024.
C4_Witness ==
    /\ last.op = "get_upcoming_birthdays"
    /\ system_date = MkDate(2024, 6, 10)
    /\ Len(last.upcoming) = 1
    /\ last.upcoming[1].birthday = B_17_06_2024
    /\ RecordOf(data, last.upcoming[1].name).birthday.value = B_15_06_2024

\* C5: get_upcoming_birthdays produces a result for every book and every
\* today, a 29 February birthday in a non-leap target year included.
C5_QueryAlwaysReturns ==
    Queried => (~Failed(last) /\ last.ret # "Error: ValueError")

====
